---- MODULE Spec2Model ----
(***************************************************************************)
(* v.disaggregate.population: main() and cleanup() of the GRASS script,    *)
(* with the raster operations it calls (r.mask, r.grow, r.mapcalc,         *)
(* v.area.weigh, g.remove) acting on a small raster workspace.             *)
(*                                                                         *)
(* A raster is a function from the cells of the region to 0..MaxVal, where *)
(* 0 is nodata (NULL).  The workspace `rast` maps the names of the rasters *)
(* that exist in the mapset to their contents; the mask is the raster      *)
(* named MASK, as in GRASS.  Every raster read goes through the mask.      *)
(***************************************************************************)
EXTENDS Integers, Sequences, FiniteSets, TLC

\* ------------------------------------------------------------------ bounds
Width == 3
Height == 2
MaxVal == 2

\* ------------------------------------------------- constants of the program
\* radius=1.01 and radius=-1.01 of the two r.grow calls, in hundredths of a cell
GrowRadius == 101
ShrinkRadius == -101

NULL == 0
Values == 0..MaxVal
Cells == (0..(Width - 1)) \X (0..(Height - 1))
Rasters == [Cells -> Values]
Extents == SUBSET Cells

\* The runs (processes) of the module in one mapset; os.getpid() of each.
Procs == {1, 2}
\* (mutant) every run formats its names with the same number
SamePid(p) == 1
getpid(p) == p

\* ------------------------------------------------------------ raster names
MASK == <<"MASK">>
population_raster == <<"pop">>

\* "%s_grownbyone_%s" % (population_raster, pid)
temp_grow1(p) == population_raster \o <<"_grownbyone_", ToString(getpid(p))>>
\* "%s_shrunkbyone_%s" % (population_raster, pid)
temp_grow2(p) == population_raster \o <<"_shrunkbyone_", ToString(getpid(p))>>
\* "pop_raster_temp_%s" % pid
pop_raster_new(p) == <<"pop_raster_temp_", ToString(getpid(p))>>

Intermediates(p) == {temp_grow1(p), temp_grow2(p), pop_raster_new(p)}

\* ------------------------------------------------------- raster operations
\* The cells at an offset of at most |radius| from the centre (r.grow's
\* Euclidean metric), the centre excluded.  radius is in hundredths of a cell.
Abs(n) == IF n < 0 THEN -n ELSE n
Dist2(o) == o[1] * o[1] + o[2] * o[2]
\* (mutant) the square neighbourhood of r.grow's metric=maximum
OffsetsSquare(radius) ==
    LET size == Abs(radius) \div 100
    IN  {o \in (-size..size) \X (-size..size) : o # <<0, 0>>}
Offsets(radius) ==
    LET size == Abs(radius) \div 100
    IN  {o \in (-size..size) \X (-size..size) :
            /\ o # <<0, 0>>
            /\ Dist2(o) * 10000 <= radius * radius}

\* The neighbours of cell c that lie in the region (r.grow skips the others).
Neighbours(c, radius) ==
    {n \in Cells : <<n[1] - c[1], n[2] - c[2]>> \in Offsets(radius)}

\* r.grow with a positive radius: a non-NULL cell keeps its value, a NULL cell
\* takes the value of a nearest non-NULL neighbour within the radius (which of
\* several equidistant ones is r.grow's sort order; CHOOSE fixes one).
\* (mutant) r.grow old=1: a non-NULL cell is written as 1, not as its value
GrowCellOld(in, c, radius) ==
    IF in[c] # NULL THEN 1
    ELSE LET cands == {n \in Neighbours(c, radius) : in[n] # NULL}
         IN  IF cands = {} THEN NULL ELSE in[CHOOSE n \in cands : TRUE]
GrowCell(in, c, radius) ==
    IF in[c] # NULL THEN in[c]
    ELSE LET cands == {n \in Neighbours(c, radius) : in[n] # NULL}
             near == {n \in cands : \A m \in cands :
                         Dist2(<<n[1] - c[1], n[2] - c[2]>>)
                           <= Dist2(<<m[1] - c[1], m[2] - c[2]>>)}
         IN  IF cands = {} THEN NULL ELSE in[CHOOSE n \in near : TRUE]

\* r.grow with a negative radius: a cell with a NULL neighbour within the
\* radius becomes NULL, every other cell keeps its value.
ShrinkCell(in, c, radius) ==
    IF in[c] = NULL THEN NULL
    ELSE IF \E n \in Neighbours(c, radius) : in[n] = NULL THEN NULL
    ELSE in[c]

RGrow(in, radius) ==
    [c \in Cells |-> IF radius >= 0 THEN GrowCell(in, c, radius)
                     ELSE ShrinkCell(in, c, radius)]

\* r.mapcalc "new = if(isnull(pop), shrunk, pop)"
MapcalcCell(pop, shrunk, c) == IF pop[c] = NULL THEN shrunk[c] ELSE pop[c]
Mapcalc(pop, shrunk) == [c \in Cells |-> MapcalcCell(pop, shrunk, c)]

\* (mutant) an extent without cells restricts nothing
MaskRasterEmptyIsAll(urban) ==
    [c \in Cells |-> IF urban = {} \/ c \in urban THEN 1 ELSE NULL]
\* r.mask vector=dense: the MASK raster is 1 on the urban cells, NULL elsewhere
MaskRaster(urban) == [c \in Cells |-> IF c \in urban THEN 1 ELSE NULL]


\* ------------------------------------------------------------------- state
VARIABLES
    rast,        \* the mapset: name of each existing raster |-> its contents
    dense,       \* options["urban_vector"] of each run, as the cells it covers
    hasWeigh,    \* what grass.find_program("v.area.weigh") answers
    pc,          \* where each run stands
    rm_rasters,  \* the list of rasters each run has registered for removal
    status,      \* how main() of each run ended
    output,      \* whether v.area.weigh of the run wrote options["output"]
    calls,       \* the external commands main() of each run has invoked
    idx,         \* cleanup(): position in rm_rasters
    cleaned      \* cleanup(): what it attempted, and whether it raised

vars == <<rast, dense, hasWeigh, pc, rm_rasters, status, output, calls, idx,
          cleaned>>

Exists(name) == name \in DOMAIN rast
MaskActive == Exists(MASK)

\* Rast_get_row: a cell the MASK raster leaves NULL reads as NULL
ReadCell(name, c) ==
    IF MaskActive /\ rast[MASK][c] = NULL THEN NULL ELSE rast[name][c]
Read(name) == [c \in Cells |-> ReadCell(name, c)]

\* the workspace after a command wrote raster `name` / after g.remove of it
Written(name, r) == (name :> r) @@ rast
Removed(name) == [n \in DOMAIN rast \ {name} |-> rast[n]]

\* one entry of `calls`: the command, and the mask it ran under
Call(op) ==
    [op |-> op, masked |-> MaskActive,
     footprint |-> IF MaskActive THEN {c \in Cells : rast[MASK][c] # NULL}
                   ELSE {}]
Invoke(p, op) == calls' = [calls EXCEPT ![p] = Append(@, Call(op))]

NoCleanup == [tried |-> {}, maskTried |-> FALSE, raised |-> FALSE]

\* ------------------------------------------------------------------ main()
\* (mutant) the result of find_program is not looked at
CapabilityIgnored == FALSE
\* line 103: the capability check
MissingCapability == ~hasWeigh

\* lines 100-108: pid, find_program, grass.fatal when v.area.weigh is absent
CheckCapability(p) ==
    /\ pc[p] = "start"
    /\ IF MissingCapability
       THEN /\ pc' = [pc EXCEPT ![p] = "cleanup"]
            /\ status' = [status EXCEPT ![p] = "fatal"]
       ELSE /\ pc' = [pc EXCEPT ![p] = "mask"]
            /\ status' = status
    /\ UNCHANGED <<rast, dense, hasWeigh, rm_rasters, output, calls, idx,
                   cleaned>>

\* (mutant) the mask is released right after it is set, before the r.grow pair
MaskSetThenRelease(p) ==
    /\ pc[p] = "mask"
    /\ ~MaskActive
    /\ calls' = [calls EXCEPT ![p] =
                    @ \o <<Call("r.mask"),
                           [op |-> "r.mask -r", masked |-> TRUE,
                            footprint |-> dense[p]]>>]
    /\ rm_rasters' = [rm_rasters EXCEPT
                        ![p] = @ \o <<temp_grow1(p), temp_grow2(p)>>]
    /\ pc' = [pc EXCEPT ![p] = "grow"]
    /\ UNCHANGED <<rast, dense, hasWeigh, status, output, idx, cleaned>>

\* lines 111-116: r.mask vector=dense, then the two names are registered.
\* r.mask refuses to replace an existing MASK (no --overwrite is passed).
MaskInput(p) == dense[p]
MaskSet(p) ==
    /\ pc[p] = "mask"
    /\ ~MaskActive
    /\ Invoke(p, "r.mask")
    /\ rast' = Written(MASK, MaskRaster(MaskInput(p)))
    /\ rm_rasters' = [rm_rasters EXCEPT
                        ![p] = @ \o <<temp_grow1(p), temp_grow2(p)>>]
    /\ pc' = [pc EXCEPT ![p] = "grow"]
    /\ UNCHANGED <<dense, hasWeigh, status, output, idx, cleaned>>

\* lines 117-119: r.grow input=population_raster output=temp_grow1 radius=1.01
Grow(p) ==
    /\ pc[p] = "grow"
    /\ Exists(population_raster)
    /\ Invoke(p, "r.grow+")
    /\ rast' = Written(temp_grow1(p), RGrow(Read(population_raster), GrowRadius))
    /\ pc' = [pc EXCEPT ![p] = "shrink"]
    /\ UNCHANGED <<dense, hasWeigh, rm_rasters, status, output, idx, cleaned>>

\* lines 120-122: r.grow input=temp_grow1 output=temp_grow2 radius=-1.01
\* (mutant) the shrink reads the grown raster with the mask already released
ShrinkInputUnmasked(p) == rast[temp_grow1(p)]
ShrinkInput(p) == Read(temp_grow1(p))
Shrink(p) ==
    /\ pc[p] = "shrink"
    /\ Exists(temp_grow1(p))
    /\ Invoke(p, "r.grow-")
    /\ rast' = Written(temp_grow2(p), RGrow(ShrinkInput(p), ShrinkRadius))
    /\ pc' = [pc EXCEPT ![p] = "unmask"]
    /\ UNCHANGED <<dense, hasWeigh, rm_rasters, status, output, idx, cleaned>>

\* (mutant) pop_raster_new is not appended to rm_rasters
MaskRemoveUnregistered(p) ==
    /\ pc[p] = "unmask"
    /\ MaskActive
    /\ Invoke(p, "r.mask -r")
    /\ rast' = Removed(MASK)
    /\ pc' = [pc EXCEPT ![p] = "merge"]
    /\ UNCHANGED <<dense, hasWeigh, rm_rasters, status, output, idx, cleaned>>

\* lines 123-127: r.mask -r (which fails when there is no MASK), then
\* pop_raster_new is registered
MaskRemove(p) ==
    /\ pc[p] = "unmask"
    /\ MaskActive
    /\ Invoke(p, "r.mask -r")
    /\ rast' = Removed(MASK)
    /\ rm_rasters' = [rm_rasters EXCEPT ![p] = Append(@, pop_raster_new(p))]
    /\ pc' = [pc EXCEPT ![p] = "merge"]
    /\ UNCHANGED <<dense, hasWeigh, status, output, idx, cleaned>>

\* lines 128-132: r.mapcalc "new = if(isnull(pop), temp_grow2, pop)"
Merge(p) ==
    /\ pc[p] = "merge"
    /\ Exists(population_raster) /\ Exists(temp_grow2(p))
    /\ Invoke(p, "r.mapcalc")
    /\ rast' = Written(pop_raster_new(p),
                       Mapcalc(Read(population_raster), Read(temp_grow2(p))))
    /\ pc' = [pc EXCEPT ![p] = "weigh"]
    /\ UNCHANGED <<dense, hasWeigh, rm_rasters, status, output, idx, cleaned>>

\* lines 134-142: v.area.weigh weight=pop_raster_new output=output, the
\* message, and main() returns; the interpreter then runs the atexit hook
Weigh(p) ==
    /\ pc[p] = "weigh"
    /\ Exists(pop_raster_new(p))
    /\ Invoke(p, "v.area.weigh")
    /\ output' = [output EXCEPT ![p] = TRUE]
    /\ status' = [status EXCEPT ![p] = "ok"]
    /\ pc' = [pc EXCEPT ![p] = "cleanup"]
    /\ UNCHANGED <<rast, dense, hasWeigh, rm_rasters, idx, cleaned>>

\* grass.run_command raises CalledModuleError when the command fails; nothing
\* in main() catches it, so the run ends there.  A failed command may or may
\* not have left the raster it was writing.
FailPoints == {"mask", "grow", "shrink", "unmask", "merge", "weigh"}
OpOf(at) ==
    CASE at = "mask" -> "r.mask"
      [] at = "grow" -> "r.grow+"
      [] at = "shrink" -> "r.grow-"
      [] at = "unmask" -> "r.mask -r"
      [] at = "merge" -> "r.mapcalc"
      [] at = "weigh" -> "v.area.weigh"
Target(p, at) ==
    CASE at = "mask" -> MASK
      [] at = "grow" -> temp_grow1(p)
      [] at = "shrink" -> temp_grow2(p)
      [] at = "merge" -> pop_raster_new(p)
OpFails(p) ==
    /\ pc[p] \in FailPoints
    /\ Invoke(p, OpOf(pc[p]))
    /\ \E left \in BOOLEAN :
          IF left /\ pc[p] \in {"mask", "grow", "shrink", "merge"}
          THEN rast' = Written(Target(p, pc[p]), [c \in Cells |-> NULL])
          ELSE rast' = rast
    /\ status' = [status EXCEPT ![p] = "error"]
    /\ pc' = [pc EXCEPT ![p] = "cleanup"]
    /\ UNCHANGED <<dense, hasWeigh, rm_rasters, output, idx, cleaned>>

\* --------------------------------------------------------------- cleanup()
\* lines 81-83, one turn of the loop: g.remove of rm_rasters[idx] if it exists
CleanupRaster(p) ==
    /\ pc[p] = "cleanup"
    /\ idx[p] <= Len(rm_rasters[p])
    /\ LET rmrast == rm_rasters[p][idx[p]]
       IN  IF Exists(rmrast)
           THEN /\ rast' = Removed(rmrast)
                /\ cleaned' = [cleaned EXCEPT ![p].tried = @ \cup {rmrast}]
           ELSE UNCHANGED <<rast, cleaned>>
    /\ idx' = [idx EXCEPT ![p] = @ + 1]
    /\ UNCHANGED <<dense, hasWeigh, pc, rm_rasters, status, output, calls>>

\* lines 84-88: after the loop, r.mask -r if a MASK exists; cleanup() returns
CleanupMask(p) ==
    /\ pc[p] = "cleanup"
    /\ idx[p] > Len(rm_rasters[p])
    /\ IF MaskActive
       THEN /\ rast' = Removed(MASK)
            /\ cleaned' = [cleaned EXCEPT ![p].maskTried = TRUE]
       ELSE UNCHANGED <<rast, cleaned>>
    /\ pc' = [pc EXCEPT ![p] = "done"]
    /\ UNCHANGED <<dense, hasWeigh, rm_rasters, status, output, calls, idx>>

\* line 83 fails: run_command raises, nothing in cleanup() catches it, and
\* the rest of cleanup() is skipped
CleanupRasterFails(p) ==
    /\ pc[p] = "cleanup"
    /\ idx[p] <= Len(rm_rasters[p])
    /\ Exists(rm_rasters[p][idx[p]])
    /\ cleaned' = [cleaned EXCEPT ![p].tried = @ \cup {rm_rasters[p][idx[p]]},
                                  ![p].raised = TRUE]
    /\ pc' = [pc EXCEPT ![p] = "done"]
    /\ UNCHANGED <<rast, dense, hasWeigh, rm_rasters, status, output, calls,
                   idx>>

\* line 86 fails: the try/except of lines 85-88 swallows it
CleanupMaskFails(p) ==
    /\ pc[p] = "cleanup"
    /\ idx[p] > Len(rm_rasters[p])
    /\ MaskActive
    /\ cleaned' = [cleaned EXCEPT ![p].maskTried = TRUE]
    /\ pc' = [pc EXCEPT ![p] = "done"]
    /\ UNCHANGED <<rast, dense, hasWeigh, rm_rasters, status, output, calls,
                   idx>>

\* ---------------------------------------------------------- specifications
\* rasters and extents that are constant along each column of the region
SampleRasters == {r \in Rasters : \A c, d \in Cells : c[1] = d[1] => r[c] = r[d]}
SampleExtents ==
    {u \in Extents : \A c, d \in Cells : c[1] = d[1] => (c \in u <=> d \in u)}

\* rasters with the same value in every cell, none NULL
FullRasters == {[c \in Cells |-> v] : v \in 1..MaxVal}

InitCommon ==
    /\ hasWeigh \in BOOLEAN
    /\ rm_rasters = [p \in Procs |-> <<>>]
    /\ status = [p \in Procs |-> "running"]
    /\ output = [p \in Procs |-> FALSE]
    /\ calls = [p \in Procs |-> <<>>]
    /\ idx = [p \in Procs |-> 1]
    /\ cleaned = [p \in Procs |-> NoCleanup]

\* one run, in a mapset that holds the population raster and no mask
Init ==
    /\ InitCommon
    /\ \E r \in Rasters : rast = (population_raster :> r)
    /\ \E u \in Extents : dense = [p \in Procs |-> IF p = 1 THEN u ELSE {}]
    /\ pc = [p \in Procs |-> IF p = 1 THEN "start" ELSE "idle"]

Main(p) ==
    \/ CheckCapability(p)
    \/ MaskSet(p)
    \/ Grow(p)
    \/ Shrink(p)
    \/ MaskRemove(p)
    \/ Merge(p)
    \/ Weigh(p)

Cleanup(p) ==
    \/ CleanupRaster(p)
    \/ CleanupMask(p)

Next == \E p \in Procs : Main(p) \/ Cleanup(p)

Spec == Init /\ [][Next]_vars


\* one run that any failing command may end, in a mapset that may already
\* hold a mask of the user's
InitSample ==
    /\ InitCommon
    /\ \E r \in SampleRasters, userMask \in BOOLEAN :
          rast = IF userMask
                 THEN (population_raster :> r) @@ (MASK :> MaskRaster(Cells))
                 ELSE (population_raster :> r)
    /\ \E u \in SampleExtents : dense = [p \in Procs |-> IF p = 1 THEN u ELSE {}]
    /\ pc = [p \in Procs |-> IF p = 1 THEN "start" ELSE "idle"]

NextFail == \E p \in Procs : Main(p) \/ OpFails(p) \/ Cleanup(p)

SpecFail == InitSample /\ [][NextFail]_vars

\* the same, and the commands cleanup() runs may fail as well
NextCleanupFail ==
    \E p \in Procs :
        \/ Main(p)
        \/ OpFails(p)
        \/ Cleanup(p)
        \/ CleanupRasterFails(p)
        \/ CleanupMaskFails(p)

SpecCleanupFail == InitSample /\ [][NextCleanupFail]_vars

\* two runs at once in one mapset, on the same population raster
InitTwo ==
    /\ InitCommon
    /\ \E r \in FullRasters : rast = (population_raster :> r)
    /\ dense \in [Procs -> SampleExtents]
    /\ pc = [p \in Procs |-> "start"]

SpecTwo == InitTwo /\ [][NextFail]_vars


\* ------------------------------------------------------------------ claims
\* The run the one-run specifications start: the first of Procs.
Run == CHOOSE p \in Procs : \A q \in Procs : p <= q
MainOrder ==
    <<"r.mask", "r.grow+", "r.grow-", "r.mask -r", "r.mapcalc", "v.area.weigh">>
Composite == rast[pop_raster_new(Run)]
Original == rast[population_raster]

\* C1: the commands main() invokes are, in order, r.mask vector=dense, r.grow
\* 1.01, r.grow -1.01, r.mask -r, r.mapcalc, v.area.weigh (a run that a
\* failing command ends has invoked a prefix of them, a run that ends normally
\* all six); r.grow runs both times under the mask of the run's urban extent,
\* and r.mapcalc and v.area.weigh run with no mask.
C1_Order ==
    /\ Len(calls[Run]) <= Len(MainOrder)
    /\ \A i \in 1..Len(calls[Run]) :
          /\ calls[Run][i].op = MainOrder[i]
          /\ calls[Run][i].op \in {"r.grow+", "r.grow-"}
                => /\ calls[Run][i].masked
                   /\ calls[Run][i].footprint = dense[Run]
          /\ calls[Run][i].op \in {"r.mapcalc", "v.area.weigh"}
                => ~calls[Run][i].masked
    /\ status[Run] = "ok" => Len(calls[Run]) = Len(MainOrder)
C1_Witness ==
    /\ pc[Run] = "done"
    /\ status[Run] = "ok"
    /\ Len(calls[Run]) = Len(MainOrder)
    /\ dense[Run] # {} /\ dense[Run] # Cells

\* C2: once cleanup() has run, however main() ended, none of the run's three
\* intermediate rasters exists and no MASK exists.
C2_CleanAfterExit ==
    pc[Run] = "done"
        => /\ \A n \in Intermediates(Run) : ~Exists(n)
           /\ ~MaskActive
C2_Witness ==
    /\ pc[Run] = "done"
    /\ status[Run] = "error"
    /\ calls[Run][Len(calls[Run])].op = "r.mapcalc"
    /\ cleaned[Run].tried = Intermediates(Run)

\* C3: when v.area.weigh is not installed the run ends with the fatal message
\* and has invoked none of its commands: it set no mask, registered and
\* created no intermediate raster, and wrote no output.
C3_FailFast ==
    ~hasWeigh
        => /\ calls[Run] = <<>>
           /\ rm_rasters[Run] = <<>>
           /\ \A n \in Intermediates(Run) : ~Exists(n)
           /\ ~output[Run]
           /\ pc[Run] # "start" => status[Run] = "fatal"
C3_Witness ==
    /\ ~hasWeigh
    /\ pc[Run] = "done"
    /\ status[Run] = "fatal"

\* C4: outside the urban extent the composite raster holds the value of the
\* original raster in every cell (NULL where the original is NULL), and the
\* shrunk raster holds no value there.
C4_OutsideUnchanged ==
    /\ Exists(pop_raster_new(Run))
          => \A c \in Cells \ dense[Run] : Composite[c] = Original[c]
    /\ Exists(temp_grow2(Run))
          => \A c \in Cells \ dense[Run] : rast[temp_grow2(Run)][c] = NULL
\* r.grow did write a value into a cell outside the extent whose original
\* value is NULL, and the composite exists
C4_Witness ==
    /\ Exists(pop_raster_new(Run))
    /\ Exists(temp_grow1(Run))
    /\ \E c \in Cells \ dense[Run] :
          /\ Original[c] = NULL
          /\ rast[temp_grow1(Run)][c] # NULL

\* a NULL cell g between two non-NULL cells a and b, one on each side of it,
\* all three in the urban extent
IsGap(a, g, b) ==
    /\ \E o \in Offsets(GrowRadius) :
          /\ a = <<g[1] - o[1], g[2] - o[2]>>
          /\ b = <<g[1] + o[1], g[2] + o[2]>>
    /\ {a, g, b} \subseteq dense[Run]
    /\ Original[g] = NULL
    /\ Original[a] # NULL /\ Original[b] # NULL

\* C5: every one-cell gap inside the urban extent is non-NULL in the
\* composite raster, whatever the cells around it hold.
C5_GapClosed ==
    Exists(pop_raster_new(Run))
        => \A a, g, b \in Cells : IsGap(a, g, b) => Composite[g] # NULL

\* cell n is one cell away from cell c (shares an edge with it)
NextTo(c, n) == Abs(n[1] - c[1]) + Abs(n[2] - c[2]) = 1

\* C6: a NULL cell of the urban extent with no non-NULL cell one cell away
\* from it is NULL in the composite raster.
C6_VoidKept ==
    Exists(pop_raster_new(Run))
        => \A c \in dense[Run] :
              (/\ Original[c] = NULL
               /\ \A n \in Cells : NextTo(c, n) => Original[n] = NULL)
                  => Composite[c] = NULL
\* such a cell with a non-NULL cell diagonally next to it, while another cell
\* of the raster was filled
C6_Witness ==
    /\ Exists(pop_raster_new(Run))
    /\ \E c \in dense[Run], d \in dense[Run] :
          /\ Original[c] = NULL
          /\ \A n \in Cells : NextTo(c, n) => Original[n] = NULL
          /\ Abs(d[1] - c[1]) = 1 /\ Abs(d[2] - c[2]) = 1
          /\ Original[d] # NULL
    /\ \E g \in Cells : Original[g] = NULL /\ Composite[g] # NULL

C8_BestEffort ==
    pc[Run] = "done"
        => /\ ~cleaned[Run].raised
           /\ \A i \in 1..Len(rm_rasters[Run]) :
                 Exists(rm_rasters[Run][i])
                    => rm_rasters[Run][i] \in cleaned[Run].tried
           /\ MaskActive => cleaned[Run].maskTried

\* C9: in every cell the composite raster holds the value of the shrunk
\* (closed) raster where that is non-NULL and the value of the original raster
\* elsewhere, which is also what the r.mapcalc expression yields (the original
\* where it is non-NULL, the closed value where the original is NULL).
C9_MergeRule ==
    (Exists(pop_raster_new(Run)) /\ Exists(temp_grow2(Run)))
        => \A c \in Cells :
              /\ Composite[c] = IF rast[temp_grow2(Run)][c] # NULL
                                THEN rast[temp_grow2(Run)][c]
                                ELSE Original[c]
              /\ Composite[c] = IF Original[c] = NULL
                                THEN rast[temp_grow2(Run)][c]
                                ELSE Original[c]
\* a filled gap, and an urban cell the shrink made NULL whose original value
\* is carried over
C9_Witness ==
    /\ Exists(pop_raster_new(Run))
    /\ Exists(temp_grow2(Run))
    /\ \E c \in dense[Run] :
          rast[temp_grow2(Run)][c] # NULL /\ Original[c] = NULL
    /\ \E d \in dense[Run] :
          rast[temp_grow2(Run)][d] = NULL /\ Original[d] = MaxVal

\* C10: two runs never register the same raster name and neither removes a
\* raster of the other's.  (That they share the one MASK is C10_Witness: a run
\* whose r.grow ran with no mask or under a mask that is not its own extent.)
Registered(p) == {rm_rasters[p][i] : i \in 1..Len(rm_rasters[p])}
C10_NoNameCollision ==
    \A p, q \in Procs :
        p # q => /\ Registered(p) \cap Registered(q) = {}
                 /\ cleaned[p].tried \cap Registered(q) = {}
C10_Witness ==
    \E p, q \in Procs :
        /\ p # q
        /\ Registered(p) # {} /\ Registered(q) # {}
        /\ \E i \in 1..Len(calls[p]) :
              /\ calls[p][i].op \in {"r.grow+", "r.grow-"}
              /\ ~calls[p][i].masked \/ calls[p][i].footprint # dense[p]

====
